---- MODULE Spec2Model ----
(***************************************************************************)
(* The e-shop API: the Express middleware chain of app.js (CORS, static    *)
(* files, the four resource routers, the JWT gate, the error translator,   *)
(* the documentation endpoint) over the document collections the handlers  *)
(* read and write.  One action per route handler or middleware that        *)
(* answers; a request is served by exactly one action, which records the   *)
(* request, the middleware it passed through and every response write.     *)
(***************************************************************************)
EXTENDS Integers, Sequences, FiniteSets, TLC

VARIABLES
    forwardRejections, \* build: does Express forward a rejected async handler to next(err)?
    categories,        \* Category collection: id -> [name]
    nextCategory,      \* number of Category documents created so far
    products,          \* Product collection: id -> [category, countInStock, price, image, images]
    nextProduct,       \* number of Product documents created so far
    orderItems,        \* OrderItem collection: id -> [quantity, product]
    nextOrderItem,     \* number of OrderItem documents created so far
    orders,            \* Order collection: id -> [orderItems, shippingAddress1, status, totalPrice, user]
    nextOrder,         \* number of Order documents created so far
    pendingDeletes,    \* OrderItem deletions issued by DELETE /orders/:id and not yet run
    users,             \* User collection: id -> [email, passwordHash, isAdmin]
    nextUser,          \* number of User documents created so far
    uploads,           \* file names stored under public/uploads
    req,               \* the request served last
    res,               \* the statuses of the response writes made for req, in order
    trace,             \* the middleware and handlers req passed through, in order
    err,               \* the error raised while req was served, if any
    sent,              \* the body of the first response write made for req
    pathObj                \* the documentation operation generated last

db == <<categories, nextCategory, products, nextProduct, orderItems, nextOrderItem,
        orders, nextOrder, pendingDeletes, users, nextUser, uploads>>

vars == <<forwardRejections, categories, nextCategory, products, nextProduct,
          orderItems, nextOrderItem, orders, nextOrder, pendingDeletes, users,
          nextUser, uploads, req, res, trace, err, sent, pathObj>>

-----------------------------------------------------------------------------
(* Bounds of the model *)

MaxCategories == 1
MaxProducts == 1
MaxOrderItems == 2
MaxOrders == 1
MaxUsers == 1

-----------------------------------------------------------------------------
(* Values *)

\* a field the client did not send (JavaScript undefined)
Undefined == "undefined"

\* the 24-hex-digit identifiers the database generates, in generation order
IdName == <<"id1", "id2", "id3", "id4", "id5", "id6", "id7", "id8">>

ObjectId(n) == IdName[n]

ObjectIds == {IdName[i] : i \in 1..Len(IdName)}

\* mongoose.isValidObjectId / the cast of a string to ObjectId
isValidObjectId(id) == id \in ObjectIds

Has(body, field) == field \in DOMAIN body

-----------------------------------------------------------------------------
(* Requests *)

\* process.env.API_URL, as a sequence of path segments
api == <<"api", "v1">>

Methods == {"GET", "POST", "PUT", "DELETE", "OPTIONS"}

\* Authorization header: none, or a bearer token with its signature check,
\* expiry and isAdmin claim
NoToken == [present |-> FALSE, signed |-> FALSE, expired |-> FALSE, isAdmin |-> FALSE]

Token(signed, expired, isAdmin) ==
    [present |-> TRUE, signed |-> signed, expired |-> expired, isAdmin |-> isAdmin]

Tokens == {NoToken, Token(FALSE, FALSE, TRUE), Token(TRUE, TRUE, TRUE),
           Token(TRUE, FALSE, FALSE), Token(TRUE, FALSE, TRUE)}

\* jwt.verify with the secret and HS256: the signature is good and the token unexpired
ValidToken(t) == t.present /\ t.signed /\ ~t.expired

Min(S) == CHOOSE x \in S : \A y \in S : x <= y

IsPrefix(p, s) == Len(p) <= Len(s) /\ SubSeq(s, 1, Len(p)) = p

\* the segments of s after the first n
Drop(s, n) == SubSeq(s, n + 1, Len(s))

\* an unanchored regular expression /\/a\/b(.*)/ : the segments occur, in
\* order and adjacent, somewhere in the path
Contains(s, p) == \E i \in 0..(Len(s) - Len(p)) : SubSeq(s, i + 1, i + Len(p)) = p

-----------------------------------------------------------------------------
(* Route tables: router.METHOD(path, handler) in registration order *)

Route(method, path, handler) == [method |-> method, path |-> path, handler |-> handler]

IsParam(segment) == segment \in {":id", ":count", ":status", ":userId"}

productsRoutes ==
    << Route("GET", <<>>, "products.list"),
       Route("GET", <<":id">>, "products.get"),
       Route("GET", <<"get", "count">>, "products.count"),
       Route("GET", <<"get", "featured", ":count">>, "products.featured"),
       Route("POST", <<>>, "products.create"),
       Route("DELETE", <<":id">>, "products.delete"),
       Route("PUT", <<":id">>, "products.update"),
       Route("PUT", <<"gallery-images", ":id">>, "products.gallery") >>

categoriesRoutes ==
    << Route("GET", <<>>, "categories.list"),
       Route("GET", <<":id">>, "categories.get"),
       Route("POST", <<>>, "categories.create"),
       Route("PUT", <<":id">>, "categories.update"),
       Route("DELETE", <<":id">>, "categories.delete") >>

ordersRoutes ==
    << Route("GET", <<>>, "orders.list"),
       Route("GET", <<":id">>, "orders.get"),
       Route("GET", <<"get", "count">>, "orders.count"),
       Route("GET", <<"get", "totalsales">>, "orders.totalsales"),
       Route("GET", <<"get", "status", ":status">>, "orders.status"),
       Route("GET", <<"get", "userorders", ":userId">>, "orders.userorders"),
       Route("POST", <<>>, "orders.create"),
       Route("PUT", <<":id">>, "orders.update"),
       Route("DELETE", <<":id">>, "orders.delete") >>

usersRoutes ==
    << Route("GET", <<>>, "users.list"),
       Route("GET", <<":id">>, "users.get"),
       Route("GET", <<"get", "count">>, "users.count"),
       Route("POST", <<>>, "users.create"),
       Route("POST", <<"login">>, "users.login"),
       Route("PUT", <<":id">>, "users.update"),
       Route("DELETE", <<":id">>, "users.delete") >>

\* a route path matches the rest of the URL segment by segment, a :param
\* matching any one segment
PathMatches(pattern, rest) ==
    /\ Len(pattern) = Len(rest)
    /\ \A i \in 1..Len(pattern) : IsParam(pattern[i]) \/ pattern[i] = rest[i]

NoRoute == "none"

\* the handler of the first route of the router that matches
Match(routes, method, rest) ==
    LET hits == {i \in 1..Len(routes) :
                    routes[i].method = method /\ PathMatches(routes[i].path, rest)}
    IN  IF hits = {} THEN NoRoute ELSE routes[Min(hits)].handler

\* app.use(`${api}/<name>`, router), in the order of app.js
Mounts ==
    << [at |-> api \o <<"products">>, routes |-> productsRoutes],
       [at |-> api \o <<"categories">>, routes |-> categoriesRoutes],
       [at |-> api \o <<"orders">>, routes |-> ordersRoutes],
       [at |-> api \o <<"users">>, routes |-> usersRoutes] >>

\* the route handler the routers dispatch the request to, if any
RouteOf(r) ==
    LET hits == {i \in 1..Len(Mounts) :
                    /\ IsPrefix(Mounts[i].at, r.path)
                    /\ Match(Mounts[i].routes, r.method,
                             Drop(r.path, Len(Mounts[i].at))) # NoRoute}
    IN  IF hits = {} THEN NoRoute
        ELSE Match(Mounts[Min(hits)].routes, r.method,
                   Drop(r.path, Len(Mounts[Min(hits)].at)))

\* req.params.<name> of a route whose only parameter is its last segment
Param(r) == r.path[Len(r.path)]

-----------------------------------------------------------------------------
(* helpers/jwt.js: the authentication gate *)

\* one entry of unless({path: [...]}): a pattern with the methods it exempts
\* (no methods: every method)
UnlessEntry(r, pattern, anchored, methods) ==
    /\ IF anchored THEN r.path = pattern ELSE Contains(r.path, pattern)
    /\ methods = {} \/ r.method \in methods

\* Unless with the methods of the pattern entries narrowed to GET only on
\* the documentation and to nothing on the product paths
UnlessNarrowed(r) ==
    \/ UnlessEntry(r, <<"public", "uploads">>, FALSE, {"GET", "OPTIONS"})
    \/ UnlessEntry(r, api \o <<"categories">>, FALSE, {"GET", "OPTIONS"})
    \/ UnlessEntry(r, api \o <<"users", "login">>, TRUE, {})
    \/ UnlessEntry(r, api \o <<"users", "regiseter">>, TRUE, {})

\* the request is exempt from token verification
Unless(r) ==
    \/ UnlessEntry(r, <<"api-docs">>, FALSE, {"GET", "OPTIONS"})
    \/ UnlessEntry(r, <<"public", "uploads">>, FALSE, {"GET", "OPTIONS"})
    \/ UnlessEntry(r, api \o <<"products">>, FALSE, {"GET", "OPTIONS"})
    \/ UnlessEntry(r, api \o <<"categories">>, FALSE, {"GET", "OPTIONS"})
    \/ UnlessEntry(r, api \o <<"users", "login">>, TRUE, {})
    \/ UnlessEntry(r, api \o <<"users", "regiseter">>, TRUE, {})

isRevoked(token) == ~token.isAdmin

\* expressJwt: the name of the error passed to next(), or "ok"
Verify(token) ==
    IF ~ValidToken(token) THEN "UnauthorizedError"
    ELSE IF isRevoked(token) THEN "UnauthorizedError"
    ELSE "ok"

-----------------------------------------------------------------------------
(* helpers/error-handler.js *)

DuplicateKey == 11000

\* the status by the name alone: a database error of any code is a bad request
errorHandlerByName(name, code) ==
    IF name \in {"UnauthorizedError", "JsonWebTokenError", "TokenExpiredError"} THEN 401
    ELSE IF name = "NotFoundError" THEN 404
    ELSE IF name \in {"ValidationError", "CastError", "MongoError", "MulterError",
                      "SyntaxError", "RangeError", "TypeError", "ReferenceError"}
    THEN 400
    ELSE 500

\* the status errorHandler answers an error of this name and code with
errorHandler(name, code) ==
    IF name = "UnauthorizedError" THEN 401
    ELSE IF name = "NotFoundError" THEN 404
    ELSE IF name = "ValidationError" THEN 400
    ELSE IF name = "CastError" THEN 400
    ELSE IF name = "JsonWebTokenError" THEN 401
    ELSE IF name = "TokenExpiredError" THEN 401
    ELSE IF name = "MongoError" /\ code = DuplicateKey THEN 400
    ELSE IF name = "MulterError" THEN 400
    ELSE IF name = "SyntaxError" THEN 400
    ELSE IF name = "RangeError" THEN 400
    ELSE IF name = "TypeError" THEN 400
    ELSE IF name = "ReferenceError" THEN 400
    ELSE 500

-----------------------------------------------------------------------------
(* app.js: the middleware chain in front of the handlers *)

uploadsAt == <<"public", "uploads">>

\* express.static serves an existing file to GET and falls through otherwise
StaticServes(r) ==
    /\ r.method = "GET"
    /\ IsPrefix(uploadsAt, r.path)
    /\ Len(r.path) = Len(uploadsAt) + 1
    /\ r.path[Len(r.path)] \in uploads

\* the request reaches route handler h: cors() ends every OPTIONS request,
\* the routers are mounted before authJwt()
Routed(r, h) == r.method # "OPTIONS" /\ ~StaticServes(r) /\ RouteOf(r) = h

\* the request falls through every router and reaches authJwt()
Unrouted(r) == r.method # "OPTIONS" /\ ~StaticServes(r) /\ RouteOf(r) = NoRoute

NoError == [name |-> "", code |-> 0]

\* an error object: its name and, for database errors, its code
Error(name, code) == [name |-> name, code |-> code]

\* response bodies: none written, one whose content the model leaves open,
\* an array of documents, an object, the message of errorHandler
Nothing == [kind |-> "none"]
Other == [kind |-> "other"]
Array(items) == [kind |-> "array", items |-> items]
Number(n) == [kind |-> "number", value |-> n]
Message == [kind |-> "message"]

\* a text sent as the body: res.send("...")
Text(message) == [kind |-> "text", text |-> message]

\* a document sent as the body: res.send(document)
Document(doc) == [kind |-> "document", doc |-> doc]

\* truthiness where an empty array is falsy too
TruthyNonEmpty(value) ==
    IF value.kind = "number" THEN value.value # 0
    ELSE IF value.kind = "array" THEN value.items # {}
    ELSE TRUE

\* !value in the handlers: zero is falsy, every array and object is truthy
Truthy(value) == IF value.kind = "number" THEN value.value # 0 ELSE TRUE

\* the request is over: the response writes, the stages passed, the error
\* raised on the way and the body of the first write
Respond(r, writes, stages, e, body) ==
    /\ req' = r
    /\ res' = writes
    /\ trace' = stages
    /\ err' = e
    /\ sent' = body
    /\ UNCHANGED <<forwardRejections, pathObj>>

\* the handler (or middleware) answered: the response writes and the stages passed
Answer(r, writes, stages) ==
    Respond(r, writes, stages, NoError, IF writes = <<>> THEN Nothing ELSE Other)

\* res.send(body), res.status(status).json(body): one write with this body
Send(r, status, stages, body) == Respond(r, <<status>>, stages, NoError, body)

\* errorHandler as mounted: next(e) reaches it after the given writes
ErrorHandler(r, e, writes, stages) ==
    Respond(r, Append(writes, errorHandler(e.name, e.code)),
            Append(stages, "errorHandler"), e,
            IF writes = <<>> THEN Message ELSE Other)

\* an async handler threw (its promise rejected) after the given writes:
\* Express either forwards the error to errorHandler or leaves it unhandled
Reject(r, name, writes, stages) ==
    IF forwardRejections
    THEN ErrorHandler(r, Error(name, 0), writes, stages)
    ELSE Respond(r, writes, stages, Error(name, 0),
                 IF writes = <<>> THEN Nothing ELSE Other)

\* next(err) from a middleware: errorHandler answers
Fail(r, name, stages) ==
    ErrorHandler(r, Error(name, 0), <<>>, stages)

\* cors(): an OPTIONS request is answered as a preflight
Cors(r) ==
    /\ r.method = "OPTIONS"
    /\ Answer(r, <<204>>, <<"cors">>)
    /\ UNCHANGED db

\* express.static("/public/uploads")
Static(r) ==
    /\ r.method # "OPTIONS"
    /\ StaticServes(r)
    /\ Answer(r, <<200>>, <<"static">>)
    /\ UNCHANGED db

docsAt == <<"api-docs">>

\* authJwt() and what follows it for a request no router answered:
\* errorHandler on a verification error, else the documentation endpoint,
\* else Express's final 404
AuthJwt(r) ==
    /\ Unrouted(r)
    /\ IF Unless(r)
       THEN IF IsPrefix(docsAt, r.path)
            THEN Answer(r, <<200>>, <<"authJwt", "apiDocs">>)
            ELSE Answer(r, <<404>>, <<"authJwt", "final">>)
       ELSE IF Verify(r.token) # "ok"
            THEN Fail(r, Verify(r.token), <<"authJwt", "verify">>)
            ELSE IF IsPrefix(docsAt, r.path)
                 THEN Answer(r, <<200>>, <<"authJwt", "verify", "apiDocs">>)
                 ELSE Answer(r, <<404>>, <<"authJwt", "verify", "final">>)
    /\ UNCHANGED db

-----------------------------------------------------------------------------
(* utils/swagger-route-generator.js: the documentation of the routes *)

NoDoc == [none |-> TRUE]

\* the router files of routers/, their names without the extension, letter
\* by letter
RouterNames ==
    { <<"p", "r", "o", "d", "u", "c", "t", "s">>,
      <<"c", "a", "t", "e", "g", "o", "r", "i", "e", "s">>,
      <<"o", "r", "d", "e", "r", "s">>,
      <<"u", "s", "e", "r", "s">> }

toUpperCase(c) ==
    CASE c = "p" -> "P" [] c = "c" -> "C" [] c = "o" -> "O" [] c = "u" -> "U"
      [] OTHER -> c

\* name.charAt(0).toUpperCase() + name.slice(1)
generateTag(name) == <<toUpperCase(name[1])>> \o Tail(name)

\* tag.endsWith('s') ? tag.slice(0, -1) : tag
singularTag(tag) ==
    IF tag # <<>> /\ tag[Len(tag)] = "s" THEN SubSeq(tag, 1, Len(tag) - 1) ELSE tag

\* routePath.includes(text) for a route path given by its segments: some
\* segment begins with the text after the slash
includes(routePath, segment) == \E i \in 1..Len(routePath) : routePath[i] = segment

\* the schema of the success response of determineResponseSchema
determineResponseSchema(routePath, method, tag) ==
    IF method = "get" /\ routePath = <<>>
    THEN [type |-> "array", ref |-> singularTag(tag)]
    ELSE IF method = "get" /\ includes(routePath, ":id")
    THEN [type |-> "ref", ref |-> singularTag(tag)]
    ELSE IF method = "get" /\ includes(routePath, "count")
    THEN [type |-> "object", properties |-> {"count"}]
    ELSE IF method = "post" /\ routePath = <<>>
    THEN [type |-> "ref", ref |-> singularTag(tag)]
    ELSE IF method = "put" /\ includes(routePath, ":id")
    THEN [type |-> "ref", ref |-> singularTag(tag)]
    ELSE IF method = "delete" /\ includes(routePath, ":id")
    THEN [type |-> "object", properties |-> {"success", "message"}]
    ELSE IF method = "post" /\ includes(routePath, "login")
    THEN [type |-> "object", properties |-> {"user", "token"}]
    ELSE [type |-> "any"]

\* the request body of determineRequestBody: none, the multipart upload of
\* the products router, the credentials of login, else the resource schema
determineRequestBody(routePath, method, tag) ==
    IF method = "get" \/ method = "delete"
    THEN [type |-> "none"]
    ELSE IF /\ tag = <<"P", "r", "o", "d", "u", "c", "t", "s">>
            /\ (includes(routePath, "gallery-images") \/ method = "post" \/ method = "put")
    THEN [type |-> "multipart", properties |-> {"image"}]
    ELSE IF includes(routePath, "login")
    THEN [type |-> "object", properties |-> {"email", "password"}]
    ELSE [type |-> "ref", ref |-> singularTag(tag)]

\* the parts one path segment leaves after : is removed and / and - are
\* replaced by _ and the text is split at _
SegmentParts(segment) ==
    CASE segment = "gallery-images" -> <<"gallery", "images">>
      [] segment = ":id" -> <<"id">>
      [] segment = ":count" -> <<"count">>
      [] segment = ":status" -> <<"status">>
      [] segment = ":userId" -> <<"userId">>
      [] OTHER -> <<segment>>

RECURSIVE pathParts(_)
pathParts(routePath) ==
    IF routePath = <<>> THEN <<>>
    ELSE SegmentParts(routePath[1]) \o pathParts(Tail(routePath))

\* a piece of an operation identifier: a text as it is, or with its first
\* letter in upper case
Plain(text) == [text |-> text, capital |-> FALSE]
Capitalized(text) == [text |-> text, capital |-> TRUE]

\* the identifier as the pieces generateOperationId joins: equal pieces give
\* equal identifiers
generateOperationId(routePath, method) ==
    LET parts == pathParts(routePath)
    IN  IF Len(parts) = 0
        THEN <<Plain(method), Plain("Root")>>
        ELSE IF (\E i \in 1..Len(parts) : parts[i] = "get") /\ Len(parts) > 1
        THEN <<Plain(method), Capitalized(parts[2])>>
        ELSE <<Plain(method)>>
             \o [i \in 1..Len(parts) |->
                    IF i = 1 THEN Plain(parts[i]) ELSE Capitalized(parts[i])]

\* one operation of generateSwaggerPaths: the route of a router with its
\* operation identifier, the schema of its success response and its request
\* body
GenerateDoc(name, routePath, method) ==
    /\ pathObj' = [tag |-> generateTag(name), path |-> routePath, method |-> method,
               schema |-> determineResponseSchema(routePath, method, generateTag(name)),
               operationId |-> generateOperationId(routePath, method),
               requestBody |-> determineRequestBody(routePath, method, generateTag(name))]
    /\ UNCHANGED <<forwardRejections, req, res, trace, err, sent>>

-----------------------------------------------------------------------------
(* Collections *)

\* Model.findById(id): "CastError" for a malformed id (an absent one is
\* looked up as null), else whether a document has it
FindById(collection, id) ==
    IF id = Undefined THEN "null"
    ELSE IF ~isValidObjectId(id) THEN "CastError"
    ELSE IF id \in DOMAIN collection THEN "found"
    ELSE "null"

\* the collection with document id set to doc
Put(collection, id, doc) ==
    [i \in DOMAIN collection \cup {id} |-> IF i = id THEN doc ELSE collection[i]]

\* the collection without document id
Remove(collection, id) == [i \in DOMAIN collection \ {id} |-> collection[i]]

Empty == [i \in {} |-> 0]

-----------------------------------------------------------------------------
(* routers/categories.js *)

CategoriesList(r) ==
    /\ Routed(r, "categories.list")
    /\ LET categoryList == Array(DOMAIN categories)
       IN  IF ~Truthy(categoryList)
           THEN Answer(r, <<500>>, <<"categories.list">>)
           ELSE Send(r, 200, <<"categories.list">>, categoryList)
    /\ UNCHANGED db

CategoriesGet(r) ==
    /\ Routed(r, "categories.get")
    /\ LET found == FindById(categories, Param(r))
       IN  Answer(r,
                  IF found = "found" THEN <<200>>
                  ELSE IF found = "null" THEN <<404>>
                  ELSE <<500>>,
                  <<"categories.get">>)
    /\ UNCHANGED db

CategoriesCreate(r) ==
    /\ Routed(r, "categories.create")
    /\ IF ~Has(r.body, "name")
       THEN /\ Reject(r, "ValidationError", <<>>, <<"categories.create">>)
            /\ UNCHANGED db
       ELSE /\ nextCategory < MaxCategories
            /\ categories' = Put(categories, ObjectId(nextCategory + 1),
                                 [name |-> r.body.name])
            /\ nextCategory' = nextCategory + 1
            /\ Answer(r, <<200>>, <<"categories.create">>)
            /\ UNCHANGED <<products, nextProduct, orderItems, nextOrderItem, orders,
                           nextOrder, pendingDeletes, users, nextUser, uploads>>

CategoriesUpdate(r) ==
    /\ Routed(r, "categories.update")
    /\ Has(r.body, "name")
    /\ LET found == FindById(categories, Param(r))
       IN  IF found = "CastError"
           THEN /\ Reject(r, "CastError", <<>>, <<"categories.update">>)
                /\ UNCHANGED db
           ELSE IF found = "null"
           THEN /\ Answer(r, <<400>>, <<"categories.update">>)
                /\ UNCHANGED db
           ELSE /\ categories' = Put(categories, Param(r), [name |-> r.body.name])
                /\ Answer(r, <<200>>, <<"categories.update">>)
                /\ UNCHANGED <<nextCategory, products, nextProduct, orderItems,
                               nextOrderItem, orders, nextOrder, pendingDeletes,
                               users, nextUser, uploads>>

CategoriesDelete(r) ==
    /\ Routed(r, "categories.delete")
    /\ LET found == FindById(categories, Param(r))
       IN  IF found = "found"
           THEN /\ categories' = Remove(categories, Param(r))
                /\ Answer(r, <<200>>, <<"categories.delete">>)
                /\ UNCHANGED <<nextCategory, products, nextProduct, orderItems,
                               nextOrderItem, orders, nextOrder, pendingDeletes,
                               users, nextUser, uploads>>
           ELSE /\ Answer(r, IF found = "null" THEN <<404>> ELSE <<500>>,
                          <<"categories.delete">>)
                /\ UNCHANGED db

-----------------------------------------------------------------------------
(* models/product.js *)

MinCountInStock == 0
MaxCountInStock == 255

\* the validators product.save() runs: required fields, the cast of category
\* and the range of countInStock (name stands for the required strings name
\* and description)
ProductValid(body) ==
    /\ Has(body, "name")
    /\ Has(body, "category")
    /\ isValidObjectId(body.category)
    /\ Has(body, "countInStock")
    /\ body.countInStock >= MinCountInStock
    /\ body.countInStock <= MaxCountInStock

\* price: { type: Number, default: 0 }
PriceOf(body) == IF Has(body, "price") THEN body.price ELSE 0

-----------------------------------------------------------------------------
(* routers/products.js *)

NoFile == ""

\* the map with text files accepted too, stored under the png extension
FILE_TYPE_MAP_WithText ==
    [m \in {"image/png", "image/jpeg", "image/jpg", "image/gif", "image/webp",
            "image/svg+xml", "text/plain"} |->
        CASE m = "image/png" -> "png"
          [] m = "image/jpeg" -> "jpg"
          [] m = "image/jpg" -> "jpg"
          [] m = "image/gif" -> "gif"
          [] m = "image/webp" -> "webp"
          [] m = "image/svg+xml" -> "svg"
          [] m = "text/plain" -> "png"]

FILE_TYPE_MAP ==
    [m \in {"image/png", "image/jpeg", "image/jpg", "image/gif", "image/webp",
            "image/svg+xml"} |->
        CASE m = "image/png" -> "png"
          [] m = "image/jpeg" -> "jpg"
          [] m = "image/jpg" -> "jpg"
          [] m = "image/gif" -> "gif"
          [] m = "image/webp" -> "webp"
          [] m = "image/svg+xml" -> "svg"]

\* storage.filename rejects the file: its MIME type has no extension
InvalidImageType(file) == file # NoFile /\ file \notin DOMAIN FILE_TYPE_MAP

\* storage.filename: the stored name, original name and extension (the
\* time stamp between them is left out)
Filename(file) ==
    LET extension == FILE_TYPE_MAP[file]
    IN  CASE extension = "png" -> "image.png"
          [] extension = "jpg" -> "image.jpg"
          [] extension = "gif" -> "image.gif"
          [] extension = "webp" -> "image.webp"
          [] extension = "svg" -> "image.svg"

\* uploadOptions.single("image") writes an accepted file to public/uploads
Uploaded(file) == IF file = NoFile THEN uploads ELSE uploads \cup {Filename(file)}

\* category body field as findById sees it
CategoryOf(body) == IF Has(body, "category") THEN body.category ELSE Undefined

\* the lookup skipped: every category identifier passes
CategoryUnchecked(body) == "found"

\* POST /: const category = await Category.findById(req.body.category)
CreateCategory(body) == FindById(categories, CategoryOf(body))

\* PUT /:id: const category = await Category.findById(req.body.category)
UpdateCategory(body) == FindById(categories, CategoryOf(body))

\* req.query.categories, split at the commas, filters by category; a
\* malformed identifier in it fails the cast of the filter
ProductsList(r) ==
    /\ Routed(r, "products.list")
    /\ LET filtered == Has(r.query, "categories")
           productList ==
               Array({p \in DOMAIN products :
                         filtered => products[p].category \in r.query.categories})
       IN  IF filtered /\ \E c \in r.query.categories : ~isValidObjectId(c)
           THEN Reject(r, "CastError", <<>>, <<"products.list">>)
           ELSE IF ~Truthy(productList)
           THEN Answer(r, <<500>>, <<"products.list">>)
           ELSE Send(r, 200, <<"products.list">>, productList)
    /\ UNCHANGED db

\* the not-found branch does not return: res.send runs after res.status(404).json
ProductsGet(r) ==
    /\ Routed(r, "products.get")
    /\ LET found == FindById(products, Param(r))
       IN  IF found = "CastError"
           THEN Reject(r, "CastError", <<>>, <<"products.get">>)
           ELSE IF found = "null"
           THEN Reject(r, "Error", <<404, 404>>, <<"products.get">>)
           ELSE Answer(r, <<200>>, <<"products.get">>)
    /\ UNCHANGED db

\* a zero count takes the error branch, which does not return either
ProductsCount(r) ==
    /\ Routed(r, "products.count")
    /\ LET count == Number(Cardinality(DOMAIN products))
       IN  IF ~Truthy(count)
           THEN Reject(r, "Error", <<500, 500>>, <<"products.count">>)
           ELSE Send(r, 200, <<"products.count">>, [kind |-> "object", count |-> count.value])
    /\ UNCHANGED db

ProductsFeatured(r) ==
    /\ Routed(r, "products.featured")
    /\ Answer(r, <<200>>, <<"products.featured">>)
    /\ UNCHANGED db

\* the checks with the file looked at first
CreateRejectionFileFirst(category, file) ==
    IF file = NoFile THEN "No image in the request"
    ELSE IF category = "null" THEN "Invalid Category"
    ELSE ""

\* POST /: the message the handler's checks reject the request with, none
\* when they pass: the category first, the file after it
CreateRejection(category, file) ==
    IF category = "null" THEN "Invalid Category"
    ELSE IF file = NoFile THEN "No image in the request"
    ELSE ""

ProductsCreate(r) ==
    /\ Routed(r, "products.create")
    /\ IF InvalidImageType(r.file)
       THEN /\ Fail(r, "Error", <<"upload">>)
            /\ UNCHANGED db
       ELSE LET category == CreateCategory(r.body)
                stages == <<"upload", "products.create">>
            IN  IF category = "CastError"
                THEN /\ Reject(r, "CastError", <<>>, stages)
                     /\ uploads' = Uploaded(r.file)
                     /\ UNCHANGED <<categories, nextCategory, products, nextProduct,
                                    orderItems, nextOrderItem, orders, nextOrder,
                                    pendingDeletes, users, nextUser>>
                ELSE IF CreateRejection(category, r.file) # ""
                THEN /\ Send(r, 400, stages, Text(CreateRejection(category, r.file)))
                     /\ uploads' = Uploaded(r.file)
                     /\ UNCHANGED <<categories, nextCategory, products, nextProduct,
                                    orderItems, nextOrderItem, orders, nextOrder,
                                    pendingDeletes, users, nextUser>>
                ELSE IF ~ProductValid(r.body)
                THEN /\ Reject(r, "ValidationError", <<>>, stages)
                     /\ uploads' = Uploaded(r.file)
                     /\ UNCHANGED <<categories, nextCategory, products, nextProduct,
                                    orderItems, nextOrderItem, orders, nextOrder,
                                    pendingDeletes, users, nextUser>>
                ELSE /\ nextProduct < MaxProducts
                     /\ products' = Put(products, ObjectId(nextProduct + 1),
                                        [category |-> r.body.category,
                                         countInStock |-> r.body.countInStock,
                                         price |-> PriceOf(r.body),
                                         image |-> Filename(r.file),
                                         images |-> <<>>])
                     /\ nextProduct' = nextProduct + 1
                     /\ uploads' = Uploaded(r.file)
                     /\ Answer(r, <<200>>, stages)
                     /\ UNCHANGED <<categories, nextCategory, orderItems,
                                    nextOrderItem, orders, nextOrder, pendingDeletes,
                                    users, nextUser>>

ProductsDelete(r) ==
    /\ Routed(r, "products.delete")
    /\ LET found == FindById(products, Param(r))
       IN  IF found = "found"
           THEN /\ products' = Remove(products, Param(r))
                /\ Answer(r, <<200>>, <<"products.delete">>)
                /\ UNCHANGED <<categories, nextCategory, nextProduct, orderItems,
                               nextOrderItem, orders, nextOrder, pendingDeletes,
                               users, nextUser, uploads>>
           ELSE /\ Answer(r, IF found = "null" THEN <<404>> ELSE <<500>>,
                          <<"products.delete">>)
                /\ UNCHANGED db

\* the path taken from the file alone: null when there is none
imagePathOfFile(product, file) == IF file # NoFile THEN Filename(file) ELSE "null"

\* PUT /:id: the path of the uploaded file, the product's image without one
imagePath(product, file) == IF file # NoFile THEN Filename(file) ELSE product.image

\* findByIdAndUpdate runs no validators; the request sets send countInStock
\* and price with every update
ProductsUpdate(r) ==
    /\ Routed(r, "products.update")
    /\ Has(r.body, "countInStock") /\ Has(r.body, "price")
    /\ IF InvalidImageType(r.file)
       THEN /\ Fail(r, "Error", <<"upload">>)
            /\ UNCHANGED db
       ELSE LET stages == <<"upload", "products.update">>
                category == UpdateCategory(r.body)
                rejected == /\ uploads' = Uploaded(r.file)
                            /\ UNCHANGED <<categories, nextCategory, products,
                                           nextProduct, orderItems, nextOrderItem,
                                           orders, nextOrder, pendingDeletes, users,
                                           nextUser>>
            IN  IF ~isValidObjectId(Param(r))
                THEN Answer(r, <<400>>, stages) /\ rejected
                ELSE IF category = "CastError"
                THEN Reject(r, "CastError", <<>>, stages) /\ rejected
                ELSE IF category = "null"
                THEN Answer(r, <<400>>, stages) /\ rejected
                ELSE IF FindById(products, Param(r)) = "null"
                THEN Answer(r, <<400>>, stages) /\ rejected
                ELSE /\ products' =
                          Put(products, Param(r),
                              [category |-> r.body.category,
                               countInStock |-> r.body.countInStock,
                               price |-> r.body.price,
                               image |-> imagePath(products[Param(r)], r.file),
                               images |-> products[Param(r)].images])
                     /\ uploads' = Uploaded(r.file)
                     /\ Answer(r, <<200>>, stages)
                     /\ UNCHANGED <<categories, nextCategory, nextProduct, orderItems,
                                    nextOrderItem, orders, nextOrder, pendingDeletes,
                                    users, nextUser>>

\* uploadOptions.array("images", 10), one file at most in a request here
ProductsGallery(r) ==
    /\ Routed(r, "products.gallery")
    /\ IF InvalidImageType(r.file)
       THEN /\ Fail(r, "Error", <<"upload">>)
            /\ UNCHANGED db
       ELSE LET stages == <<"upload", "products.gallery">>
                rejected == /\ uploads' = Uploaded(r.file)
                            /\ UNCHANGED <<categories, nextCategory, products,
                                           nextProduct, orderItems, nextOrderItem,
                                           orders, nextOrder, pendingDeletes, users,
                                           nextUser>>
            IN  IF ~isValidObjectId(Param(r)) \/ r.file = NoFile
                THEN Answer(r, <<400>>, stages) /\ rejected
                ELSE IF FindById(products, Param(r)) = "null"
                THEN Answer(r, <<400>>, stages) /\ rejected
                ELSE /\ products' =
                          Put(products, Param(r),
                              [products[Param(r)] EXCEPT
                                  !.images = <<Filename(r.file)>>])
                     /\ uploads' = Uploaded(r.file)
                     /\ Answer(r, <<200>>, stages)
                     /\ UNCHANGED <<categories, nextCategory, nextProduct, orderItems,
                                    nextOrderItem, orders, nextOrder, pendingDeletes,
                                    users, nextUser>>

-----------------------------------------------------------------------------
(* routers/users.js *)

\* bcrypt.hashSync(password, 10) and bcrypt.compareSync(password, hash)
\* the passwords clients submit and the salts bcrypt generates
Passwords == {"secret", "guess"}
Salts == {"salt1", "salt2"}

\* the digest bcrypt computes of a password under a salt: one value for each pair
Digest(salt, password) ==
    CASE salt = "salt1" /\ password = "secret" -> "k3Qw"
      [] salt = "salt1" /\ password = "guess" -> "Zt8r"
      [] salt = "salt2" /\ password = "secret" -> "p0Lm"
      [] salt = "salt2" /\ password = "guess" -> "Xy5c"

\* the password kept as it is, next to the salt
hashSyncPlain(password, salt) == [salt |-> salt, digest |-> password]

\* bcrypt.hashSync(password, 10): the salt generated, and the digest under it
hashSync(password, salt) == [salt |-> salt, digest |-> Digest(salt, password)]

\* bcrypt.compareSync(password, hash): the digest under the hash's salt
compareSync(password, hash) == hash.digest = Digest(hash.salt, password)

\* the User documents as they are serialised: the stored fields and the id
toJSON(id, doc) == [f \in DOMAIN doc \cup {"id"} |-> IF f = "id" THEN id ELSE doc[f]]

\* query.select("-field"): the document without the field
Select(doc, excluded) == [f \in DOMAIN doc \ {excluded} |-> doc[f]]

UsersList(r) ==
    /\ Routed(r, "users.list")
    /\ LET userList ==
               Array({toJSON(u, Select(users[u], "passwordHash")) : u \in DOMAIN users})
       IN  IF ~Truthy(userList)
           THEN Answer(r, <<500>>, <<"users.list">>)
           ELSE Send(r, 200, <<"users.list">>, userList)
    /\ UNCHANGED db

UsersGet(r) ==
    /\ Routed(r, "users.get")
    /\ LET found == FindById(users, Param(r))
       IN  IF found = "found"
           THEN Send(r, 200, <<"users.get">>,
                     [kind |-> "object",
                      user |-> toJSON(Param(r), Select(users[Param(r)], "passwordHash"))])
           ELSE Answer(r, IF found = "null" THEN <<404>> ELSE <<500>>, <<"users.get">>)
    /\ UNCHANGED db

UsersCount(r) ==
    /\ Routed(r, "users.count")
    /\ LET count == Number(Cardinality(DOMAIN users))
       IN  IF ~Truthy(count)
           THEN Reject(r, "Error", <<500, 500>>, <<"users.count">>)
           ELSE Send(r, 200, <<"users.count">>, [kind |-> "object", count |-> count.value])
    /\ UNCHANGED db

\* the new user gets no isAdmin from the request: the schema default stands;
\* the request sets send email with every registration
UsersCreate(r) ==
    /\ Routed(r, "users.create")
    /\ Has(r.body, "email")
    /\ IF ~Has(r.body, "password")
       THEN /\ Reject(r, "Error", <<>>, <<"users.create">>)
            /\ UNCHANGED db
       ELSE /\ nextUser < MaxUsers
            /\ \E salt \in Salts :
                  LET user == [email |-> r.body.email,
                               passwordHash |-> hashSync(r.body.password, salt),
                               isAdmin |-> FALSE]
                  IN  /\ users' = Put(users, ObjectId(nextUser + 1), user)
                      /\ Send(r, 200, <<"users.create">>,
                              Document(toJSON(ObjectId(nextUser + 1), user)))
            /\ nextUser' = nextUser + 1
            /\ UNCHANGED <<categories, nextCategory, products, nextProduct,
                           orderItems, nextOrderItem, orders, nextOrder,
                           pendingDeletes, uploads>>

\* User.findOne({email}): the document found first
UserByEmail(email) ==
    LET hits == {i \in DOMAIN users : users[i].email = email}
    IN  IF hits = {} THEN Undefined ELSE CHOOSE i \in hits : TRUE

UsersLogin(r) ==
    /\ Routed(r, "users.login")
    /\ LET user == IF Has(r.body, "email") THEN UserByEmail(r.body.email)
                   ELSE UserByEmail(Undefined)
       IN  IF user = Undefined
           THEN Answer(r, <<400>>, <<"users.login">>)
           ELSE IF ~Has(r.body, "password")
           THEN Reject(r, "Error", <<>>, <<"users.login">>)
           ELSE IF compareSync(r.body.password, users[user].passwordHash)
           THEN Send(r, 200, <<"users.login">>,
                     [kind |-> "object", user |-> users[user].email,
                      token |-> Token(TRUE, FALSE, users[user].isAdmin)])
           ELSE Answer(r, <<400>>, <<"users.login">>)
    /\ UNCHANGED db

\* the request sets send email and isAdmin with every update
UsersUpdate(r) ==
    /\ Routed(r, "users.update")
    /\ Has(r.body, "email") /\ Has(r.body, "isAdmin")
    /\ LET found == FindById(users, Param(r))
       IN  IF ~Has(r.body, "password")
           THEN /\ Reject(r, "Error", <<>>, <<"users.update">>)
                /\ UNCHANGED db
           ELSE IF found = "CastError"
           THEN /\ Reject(r, "CastError", <<>>, <<"users.update">>)
                /\ UNCHANGED db
           ELSE IF found = "null"
           THEN /\ Answer(r, <<400>>, <<"users.update">>)
                /\ UNCHANGED db
           ELSE /\ \E salt \in Salts :
                      LET user == [email |-> r.body.email,
                                   passwordHash |-> hashSync(r.body.password, salt),
                                   isAdmin |-> r.body.isAdmin]
                      IN  /\ users' = Put(users, Param(r), user)
                          /\ Send(r, 200, <<"users.update">>,
                                  Document(toJSON(Param(r), user)))
                /\ UNCHANGED <<categories, nextCategory, products, nextProduct,
                               orderItems, nextOrderItem, orders, nextOrder,
                               pendingDeletes, nextUser, uploads>>

UsersDelete(r) ==
    /\ Routed(r, "users.delete")
    /\ LET found == FindById(users, Param(r))
       IN  IF found = "found"
           THEN /\ users' = Remove(users, Param(r))
                /\ Answer(r, <<200>>, <<"users.delete">>)
                /\ UNCHANGED <<categories, nextCategory, products, nextProduct,
                               orderItems, nextOrderItem, orders, nextOrder,
                               pendingDeletes, nextUser, uploads>>
           ELSE /\ Answer(r, IF found = "null" THEN <<404>> ELSE <<500>>,
                          <<"users.delete">>)
                /\ UNCHANGED db

-----------------------------------------------------------------------------
(* models/order.js, models/orderItem.js *)

OrderStatuses == {"Pending", "Shipped", "Delivered", "Cancelled"}

\* orderItem.save(): quantity and product are required, product an ObjectId
OrderItemValid(item) ==
    /\ Has(item, "quantity")
    /\ Has(item, "product")
    /\ isValidObjectId(item.product)

\* order.save(): the required shipping fields (shippingAddress1 stands for
\* them) and the status enumeration; an absent status takes the default
OrderValid(body) ==
    /\ Has(body, "shippingAddress1")
    /\ Has(body, "status") => body.status \in OrderStatuses

StatusOf(body) == IF Has(body, "status") THEN body.status ELSE "Pending"

-----------------------------------------------------------------------------
(* routers/orders.js *)

Range(f) == {f[i] : i \in DOMAIN f}

\* the identifiers of the n order items saved next
NewOrderItemIds(n) == [i \in 1..n |-> ObjectId(nextOrderItem + i)]

\* the OrderItem collection after saving the items, in order
SaveOrderItems(items) ==
    LET ids == NewOrderItemIds(Len(items))
    IN  [id \in DOMAIN orderItems \cup Range(ids) |->
            IF id \in DOMAIN orderItems THEN orderItems[id]
            ELSE LET i == CHOOSE j \in 1..Len(items) : ids[j] = id
                 IN  [quantity |-> items[i].quantity, product |-> items[i].product]]

\* OrderItem.findById(id).populate("product", "price") finds the product
Populated(stored, id) == stored[id].product \in DOMAIN products

\* the price of the product alone, the quantity forgotten
LinePriceOfOne(stored, id) == products[stored[id].product].price

\* orderItem.product.price * orderItem.quantity
LinePrice(stored, id) == products[stored[id].product].price * stored[id].quantity

\* totalPrice.reduce((acc, price) => acc + price, 0) over the saved items
RECURSIVE TotalPrice(_, _)
TotalPrice(stored, ids) ==
    IF ids = <<>> THEN 0
    ELSE LinePrice(stored, ids[Len(ids)]) + TotalPrice(stored, SubSeq(ids, 1, Len(ids) - 1))

OrdersList(r) ==
    /\ Routed(r, "orders.list")
    /\ LET orderList == Array(DOMAIN orders)
       IN  IF ~Truthy(orderList)
           THEN Answer(r, <<500>>, <<"orders.list">>)
           ELSE Send(r, 200, <<"orders.list">>, orderList)
    /\ UNCHANGED db

\* the handler without its not-found branch: a missing order is sent as null
OrdersGetUnchecked(r) ==
    /\ Routed(r, "orders.get")
    /\ IF FindById(orders, Param(r)) = "CastError"
       THEN Reject(r, "CastError", <<>>, <<"orders.get">>)
       ELSE Answer(r, <<200>>, <<"orders.get">>)
    /\ UNCHANGED db

OrdersGet(r) ==
    /\ Routed(r, "orders.get")
    /\ LET found == FindById(orders, Param(r))
       IN  IF found = "CastError"
           THEN Reject(r, "CastError", <<>>, <<"orders.get">>)
           ELSE IF found = "null"
           THEN Reject(r, "Error", <<404, 404>>, <<"orders.get">>)
           ELSE Answer(r, <<200>>, <<"orders.get">>)
    /\ UNCHANGED db

OrdersCount(r) ==
    /\ Routed(r, "orders.count")
    /\ LET count == Number(Cardinality(DOMAIN orders))
       IN  IF ~Truthy(count)
           THEN Reject(r, "Error", <<500, 500>>, <<"orders.count">>)
           ELSE Send(r, 200, <<"orders.count">>, [kind |-> "object", count |-> count.value])
    /\ UNCHANGED db

OrdersTotalSales(r) ==
    /\ Routed(r, "orders.totalsales")
    /\ Answer(r, <<200>>, <<"orders.totalsales">>)
    /\ UNCHANGED db

OrdersByStatus(r) ==
    /\ Routed(r, "orders.status")
    /\ Answer(r, <<200>>, <<"orders.status">>)
    /\ UNCHANGED db

OrdersByUser(r) ==
    /\ Routed(r, "orders.userorders")
    /\ IF isValidObjectId(Param(r))
       THEN Answer(r, <<200>>, <<"orders.userorders">>)
       ELSE Reject(r, "CastError", <<>>, <<"orders.userorders">>)
    /\ UNCHANGED db

\* every valid item is saved, also when another item of the request is not;
\* the request sets send orderItems with every order
OrdersCreate(r) ==
    /\ Routed(r, "orders.create")
    /\ Has(r.body, "orderItems")
    /\ LET items == r.body.orderItems
           valid == SelectSeq(items, OrderItemValid)
           ids == NewOrderItemIds(Len(valid))
           stored == SaveOrderItems(valid)
           itemsOnly == /\ orderItems' = stored
                        /\ nextOrderItem' = nextOrderItem + Len(valid)
                        /\ UNCHANGED <<categories, nextCategory, products,
                                       nextProduct, orders, nextOrder,
                                       pendingDeletes, users, nextUser, uploads>>
       IN  /\ nextOrderItem + Len(valid) <= MaxOrderItems
           /\ IF Len(valid) < Len(items)
              THEN Reject(r, "ValidationError", <<>>, <<"orders.create">>) /\ itemsOnly
              ELSE IF \E i \in 1..Len(ids) : ~Populated(stored, ids[i])
              THEN Reject(r, "TypeError", <<>>, <<"orders.create">>) /\ itemsOnly
              ELSE IF ~OrderValid(r.body)
              THEN Answer(r, <<500>>, <<"orders.create">>) /\ itemsOnly
              ELSE /\ nextOrder < MaxOrders
                   /\ orders' = Put(orders, ObjectId(nextOrder + 1),
                                    [orderItems |-> ids,
                                     shippingAddress1 |-> r.body.shippingAddress1,
                                     status |-> StatusOf(r.body),
                                     totalPrice |-> TotalPrice(stored, ids),
                                     user |-> IF Has(r.body, "user") THEN r.body.user
                                              ELSE Undefined])
                   /\ nextOrder' = nextOrder + 1
                   /\ orderItems' = stored
                   /\ nextOrderItem' = nextOrderItem + Len(valid)
                   /\ Answer(r, <<201>>, <<"orders.create">>)
                   /\ UNCHANGED <<categories, nextCategory, products, nextProduct,
                                  pendingDeletes, users, nextUser, uploads>>

\* the order replaced by the update document: what the request does not
\* carry is lost
SetStatusOnly(order, body) ==
    [orderItems |-> <<>>, shippingAddress1 |-> Undefined, status |-> body.status,
     totalPrice |-> 0, user |-> Undefined]

\* the update document { status: req.body.status } applied to the order
SetStatus(order, body) == [order EXCEPT !.status = body.status]

\* findByIdAndUpdate runs no validators; the request sets send status with
\* every update
OrdersUpdate(r) ==
    /\ Routed(r, "orders.update")
    /\ Has(r.body, "status")
    /\ LET found == FindById(orders, Param(r))
       IN  IF found = "CastError"
           THEN /\ Reject(r, "CastError", <<>>, <<"orders.update">>)
                /\ UNCHANGED db
           ELSE IF found = "null"
           THEN /\ Answer(r, <<400>>, <<"orders.update">>)
                /\ UNCHANGED db
           ELSE /\ orders' = Put(orders, Param(r), SetStatus(orders[Param(r)], r.body))
                /\ Answer(r, <<200>>, <<"orders.update">>)
                /\ UNCHANGED <<categories, nextCategory, products, nextProduct,
                               orderItems, nextOrderItem, nextOrder, pendingDeletes,
                               users, nextUser, uploads>>

\* the order deleted and its items left as they are: no deletion is started
OrdersDeleteOrderOnly(r) ==
    /\ Routed(r, "orders.delete")
    /\ LET found == FindById(orders, Param(r))
       IN  IF found = "found"
           THEN /\ orders' = Remove(orders, Param(r))
                /\ Answer(r, <<200>>, <<"orders.delete">>)
                /\ UNCHANGED <<categories, nextCategory, products, nextProduct,
                               orderItems, nextOrderItem, nextOrder, pendingDeletes,
                               users, nextUser, uploads>>
           ELSE /\ Answer(r, IF found = "null" THEN <<404>> ELSE <<500>>,
                          <<"orders.delete">>)
                /\ UNCHANGED db

\* the deletions of the order's items are started and not awaited: the map
\* of async callbacks yields an array, which await passes through
OrdersDelete(r) ==
    /\ Routed(r, "orders.delete")
    /\ LET found == FindById(orders, Param(r))
       IN  IF found = "found"
           THEN /\ orders' = Remove(orders, Param(r))
                /\ pendingDeletes' = pendingDeletes \cup Range(orders[Param(r)].orderItems)
                /\ Answer(r, <<200>>, <<"orders.delete">>)
                /\ UNCHANGED <<categories, nextCategory, products, nextProduct,
                               orderItems, nextOrderItem, nextOrder, users, nextUser,
                               uploads>>
           ELSE /\ Answer(r, IF found = "null" THEN <<404>> ELSE <<500>>,
                          <<"orders.delete">>)
                /\ UNCHANGED db

\* OrderItem.findByIdAndDelete(orderItem) of a deleted order runs
OrderItemDelete(id) ==
    /\ id \in pendingDeletes
    /\ pendingDeletes' = pendingDeletes \ {id}
    /\ orderItems' = Remove(orderItems, id)
    /\ UNCHANGED <<forwardRejections, categories, nextCategory, products,
                   nextProduct, nextOrderItem, orders, nextOrder, users, nextUser,
                   uploads, req, res, trace, err, sent, pathObj>>

-----------------------------------------------------------------------------
(* Initial state and requests *)

NoBody == [none |-> TRUE]

\* req.query of a request without a query string
NoQuery == [none |-> TRUE]

NoRequest == [method |-> "", path |-> <<>>, token |-> NoToken, body |-> NoBody,
              file |-> NoFile, query |-> NoQuery]

Request(method, path, token, body, file) ==
    [method |-> method, path |-> path, token |-> token, body |-> body, file |-> file,
     query |-> NoQuery]

\* GET with ?categories=<ids>
Query(path, ids) ==
    [Request("GET", path, NoToken, NoBody, NoFile) EXCEPT !.query = [categories |-> ids]]

\* the database is empty and no request was served; the Express build is
\* either one
Init ==
    /\ forwardRejections \in BOOLEAN
    /\ categories = Empty
    /\ nextCategory = 0
    /\ products = Empty
    /\ nextProduct = 0
    /\ orderItems = Empty
    /\ nextOrderItem = 0
    /\ orders = Empty
    /\ nextOrder = 0
    /\ pendingDeletes = {}
    /\ users = Empty
    /\ nextUser = 0
    /\ uploads = {}
    /\ req = NoRequest
    /\ res = <<>>
    /\ trace = <<>>
    /\ err = NoError
    /\ sent = Nothing
    /\ pathObj = NoDoc

\* identifiers a client may address: the ones the collections can hold, and
\* a malformed one
BadId == "bad"

CategoryIds == {ObjectId(i) : i \in 1..MaxCategories}
ProductIds == {ObjectId(i) : i \in 1..MaxProducts}
OrderIds == {ObjectId(i) : i \in 1..MaxOrders}
UserIds == {ObjectId(i) : i \in 1..MaxUsers}

\* the names of the route handlers
Handlers ==
    UNION {{Mounts[i].routes[j].handler : j \in 1..Len(Mounts[i].routes)} :
              i \in 1..Len(Mounts)}

-----------------------------------------------------------------------------
(* The authentication gate: the methods and paths of app.js with every kind *)
(* of token, and one body that carries every field                          *)

GateBody ==
    [name |-> "name", category |-> ObjectId(1), countInStock |-> 1, price |-> 1,
     email |-> "a@b", password |-> "secret", isAdmin |-> FALSE,
     status |-> "Shipped", shippingAddress1 |-> "street",
     orderItems |-> << [quantity |-> 1, product |-> ObjectId(1)] >>]

GatePaths ==
    { api \o <<"products">>,
      api \o <<"products", ObjectId(1)>>,
      api \o <<"products", "get", "count">>,
      api \o <<"products", "gallery-images", ObjectId(1)>>,
      api \o <<"products", "no", "such", "route">>,
      <<"shop">> \o api \o <<"products">>,
      api \o <<"categories">>,
      api \o <<"categories", ObjectId(1)>>,
      api \o <<"orders">>,
      api \o <<"orders", "no", "such", "route">>,
      api \o <<"users">>,
      api \o <<"users", "login">>,
      api \o <<"users", "regiseter">>,
      <<"api-docs">>,
      uploadsAt \o <<"image.png">>,
      <<"favicon.ico">> }

\* preflight requests carry no token
GateRequests ==
    {Request(m, p, t, GateBody, "image/png") :
        m \in {"GET", "POST", "PUT"}, p \in GatePaths, t \in Tokens}
    \cup {Request("OPTIONS", p, NoToken, GateBody, NoFile) : p \in GatePaths}

\* the requests the routers dispatch to each handler, and the ones they pass on
GateRouted == [h \in Handlers \cup {NoRoute} |-> {r \in GateRequests : RouteOf(r) = h}]

\* the chain and the handlers that read; of the handlers that write, the
\* creation of categories and users and the gallery upload
NextGate ==
    \/ \E r \in GateRequests : Cors(r)
    \/ \E r \in GateRouted[NoRoute] : Static(r)
    \/ \E r \in GateRouted[NoRoute] : AuthJwt(r)
    \/ \E r \in GateRouted["products.list"] : ProductsList(r)
    \/ \E r \in GateRouted["products.get"] : ProductsGet(r)
    \/ \E r \in GateRouted["products.count"] : ProductsCount(r)
    \/ \E r \in GateRouted["products.gallery"] : ProductsGallery(r)
    \/ \E r \in GateRouted["categories.list"] : CategoriesList(r)
    \/ \E r \in GateRouted["categories.get"] : CategoriesGet(r)
    \/ \E r \in GateRouted["categories.create"] : CategoriesCreate(r)
    \/ \E r \in GateRouted["orders.list"] : OrdersList(r)
    \/ \E r \in GateRouted["users.get"] : UsersGet(r)
    \/ \E r \in GateRouted["users.create"] : UsersCreate(r)
    \/ \E r \in GateRouted["users.login"] : UsersLogin(r)

SpecGate == Init /\ [][NextGate]_vars

-----------------------------------------------------------------------------
(* The catalogue: products and categories, created, updated and deleted *)

\* a category identifier the database never generates within the bounds
UnknownCategory == ObjectId(MaxCategories + 1)

ProductBody(category, countInStock) ==
    [name |-> "name", category |-> category, countInStock |-> countInStock, price |-> 1]

\* POST /products: every category with every kind of upload, and around one
\* valid request the stock counts at and beyond the limits and missing fields
CatalogCreates ==
    {Request("POST", api \o <<"products">>, NoToken, ProductBody(c, 0), f) :
        c \in CategoryIds \cup {UnknownCategory, BadId},
        f \in {"image/png", "text/plain", NoFile}}
    \cup {Request("POST", api \o <<"products">>, NoToken,
                  [name |-> "name", countInStock |-> 0, price |-> 1], f) :
            f \in {"image/png", "text/plain"}}
    \cup {Request("POST", api \o <<"products">>, NoToken,
                  ProductBody(ObjectId(1), n), "image/png") : n \in {-1, 255, 256}}
    \cup {Request("POST", api \o <<"products">>, NoToken,
                  [name |-> "name", category |-> ObjectId(1), price |-> 1], "image/png"),
          Request("POST", api \o <<"products">>, NoToken,
                  [category |-> ObjectId(1), countInStock |-> 0], "image/png")}

CatalogUpdates ==
    {Request("PUT", api \o <<"products", id>>, NoToken, ProductBody(c, 0), f) :
        id \in ProductIds \cup {BadId},
        c \in CategoryIds \cup {UnknownCategory, BadId},
        f \in {"image/png", NoFile}}
    \cup {Request("PUT", api \o <<"products", id>>, NoToken,
                  ProductBody(ObjectId(1), 256), "text/plain") : id \in ProductIds}
    \cup {Request("PUT", api \o <<"products", id>>, NoToken,
                  ProductBody(ObjectId(1), 256), NoFile) : id \in ProductIds}

CatalogRequests ==
    CatalogCreates \cup CatalogUpdates
    \cup {Request("DELETE", api \o <<"products", id>>, NoToken, NoBody, NoFile) :
            id \in ProductIds \cup {BadId}}
    \cup {Request("PUT", api \o <<"products", "gallery-images", id>>, NoToken, NoBody, f) :
            id \in ProductIds, f \in {"image/png", "text/plain", NoFile}}
    \cup {Request("POST", api \o <<"categories">>, NoToken, b, NoFile) :
            b \in {[name |-> "name"], NoBody}}
    \cup {Request("PUT", api \o <<"categories", id>>, NoToken, [name |-> "name"], NoFile) :
            id \in CategoryIds \cup {BadId}}
    \cup {Request("DELETE", api \o <<"categories", id>>, NoToken, NoBody, NoFile) :
            id \in CategoryIds \cup {BadId}}

CatalogRouted == [h \in Handlers |-> {r \in CatalogRequests : RouteOf(r) = h}]

NextCatalog ==
    \/ \E r \in CatalogRouted["products.create"] : ProductsCreate(r)
    \/ \E r \in CatalogRouted["products.update"] : ProductsUpdate(r)
    \/ \E r \in CatalogRouted["products.delete"] : ProductsDelete(r)
    \/ \E r \in CatalogRouted["products.gallery"] : ProductsGallery(r)
    \/ \E r \in CatalogRouted["categories.create"] : CategoriesCreate(r)
    \/ \E r \in CatalogRouted["categories.update"] : CategoriesUpdate(r)
    \/ \E r \in CatalogRouted["categories.delete"] : CategoriesDelete(r)

SpecCatalog == Init /\ [][NextCatalog]_vars

-----------------------------------------------------------------------------
(* Lookups: GET /:id on the four resources while documents come and go *)

LookupBody ==
    [name |-> "name", category |-> ObjectId(1), countInStock |-> 1, price |-> 1,
     email |-> "a@b", password |-> "secret", isAdmin |-> FALSE,
     status |-> "Shipped", shippingAddress1 |-> "street", orderItems |-> <<>>]

Resources == {"products", "categories", "users", "orders"}

\* the identifiers addressed: ones the collections come to hold and lose, one
\* they may never hold, a malformed one
LookupIds == {ObjectId(1), ObjectId(2), BadId}

LookupRequests ==
    {Request("GET", api \o <<n, id>>, NoToken, NoBody, NoFile) :
        n \in Resources, id \in LookupIds}
    \cup {Request("GET", api \o <<n>>, NoToken, NoBody, NoFile) : n \in Resources}
    \cup {Query(api \o <<"products">>, ids) :
            ids \in {{ObjectId(1)}, {ObjectId(2)}, {ObjectId(1), BadId}}}
    \cup {Request("GET", api \o <<n, "get", "count">>, NoToken, NoBody, NoFile) :
            n \in {"products", "users", "orders"}}
    \cup {Request("POST", api \o <<n>>, NoToken, LookupBody, "image/png") :
            n \in Resources}
    \cup {Request("DELETE", api \o <<n, ObjectId(1)>>, NoToken, NoBody, NoFile) :
            n \in {"categories", "orders"}}

LookupRouted == [h \in Handlers |-> {r \in LookupRequests : RouteOf(r) = h}]

NextLookup ==
    \/ \E r \in LookupRouted["products.get"] : ProductsGet(r)
    \/ \E r \in LookupRouted["categories.get"] : CategoriesGet(r)
    \/ \E r \in LookupRouted["users.get"] : UsersGet(r)
    \/ \E r \in LookupRouted["orders.get"] : OrdersGet(r)
    \/ \E r \in LookupRouted["products.list"] : ProductsList(r)
    \/ \E r \in LookupRouted["categories.list"] : CategoriesList(r)
    \/ \E r \in LookupRouted["users.list"] : UsersList(r)
    \/ \E r \in LookupRouted["orders.list"] : OrdersList(r)
    \/ \E r \in LookupRouted["products.count"] : ProductsCount(r)
    \/ \E r \in LookupRouted["users.count"] : UsersCount(r)
    \/ \E r \in LookupRouted["orders.count"] : OrdersCount(r)
    \/ \E r \in LookupRouted["products.create"] : ProductsCreate(r)
    \/ \E r \in LookupRouted["categories.create"] : CategoriesCreate(r)
    \/ \E r \in LookupRouted["users.create"] : UsersCreate(r)
    \/ \E r \in LookupRouted["orders.create"] : OrdersCreate(r)
    \/ \E r \in LookupRouted["categories.delete"] : CategoriesDelete(r)
    \/ \E r \in LookupRouted["orders.delete"] : OrdersDelete(r)

SpecLookup == Init /\ [][NextLookup]_vars

-----------------------------------------------------------------------------
(* Orders: products priced and repriced, orders placed and their status set *)

\* a product identifier the database never generates within the bounds
UnknownProduct == ObjectId(MaxProducts + 1)

OrderItem(quantity, product) == [quantity |-> quantity, product |-> product]

\* the order item lists a client submits: none, one or two items, of an
\* existing or a missing product, one item without its quantity
OrderItemLists ==
    { <<>>,
      << OrderItem(2, ObjectId(1)) >>,
      << OrderItem(2, ObjectId(1)), OrderItem(1, ObjectId(1)) >>,
      << OrderItem(1, UnknownProduct) >>,
      << OrderItem(1, ObjectId(1)), OrderItem(1, UnknownProduct) >>,
      << [product |-> ObjectId(1)], OrderItem(1, ObjectId(1)) >> }

OrderBodies ==
    {[shippingAddress1 |-> "street", orderItems |-> items] : items \in OrderItemLists}
    \cup {[shippingAddress1 |-> "street", status |-> "Sent",
           orderItems |-> << OrderItem(2, ObjectId(1)) >>]}
    \cup {[orderItems |-> << OrderItem(2, ObjectId(1)) >>]}

OrdersRequests ==
    {Request("POST", api \o <<"orders">>, NoToken, b, NoFile) : b \in OrderBodies}
    \cup {Request("PUT", api \o <<"orders", id>>, NoToken, [status |-> status], NoFile) :
            id \in OrderIds \cup {BadId}, status \in {"Delivered", "Sent"}}
    \cup {Request("POST", api \o <<"categories">>, NoToken, [name |-> "name"], NoFile)}
    \cup {Request("POST", api \o <<"products">>, NoToken,
                  [name |-> "name", category |-> ObjectId(1), countInStock |-> 1,
                   price |-> 2], "image/png")}
    \cup {Request("PUT", api \o <<"products", ObjectId(1)>>, NoToken,
                  [name |-> "name", category |-> ObjectId(1), countInStock |-> 1,
                   price |-> 3], NoFile)}

OrdersRouted == [h \in Handlers |-> {r \in OrdersRequests : RouteOf(r) = h}]

NextOrders ==
    \/ \E r \in OrdersRouted["orders.create"] : OrdersCreate(r)
    \/ \E r \in OrdersRouted["orders.update"] : OrdersUpdate(r)
    \/ \E r \in OrdersRouted["categories.create"] : CategoriesCreate(r)
    \/ \E r \in OrdersRouted["products.create"] : ProductsCreate(r)
    \/ \E r \in OrdersRouted["products.update"] : ProductsUpdate(r)

SpecOrders == Init /\ [][NextOrders]_vars

-----------------------------------------------------------------------------
(* Order deletion: orders placed and deleted while the item deletions that *)
(* a deletion started run                                                   *)

OrderItemIds == {ObjectId(i) : i \in 1..MaxOrderItems}

CleanupRequests ==
    {Request("POST", api \o <<"categories">>, NoToken, [name |-> "name"], NoFile),
     Request("POST", api \o <<"products">>, NoToken,
             [name |-> "name", category |-> ObjectId(1), countInStock |-> 1,
              price |-> 2], "image/png")}
    \cup {Request("POST", api \o <<"orders">>, NoToken,
                  [shippingAddress1 |-> "street", orderItems |-> items], NoFile) :
            items \in { << [quantity |-> 1, product |-> ObjectId(1)] >>,
                        << [quantity |-> 1, product |-> ObjectId(1)],
                           [quantity |-> 2, product |-> ObjectId(1)] >> }}
    \cup {Request("DELETE", api \o <<"orders", id>>, NoToken, NoBody, NoFile) :
            id \in OrderIds \cup {BadId}}

CleanupRouted == [h \in Handlers |-> {r \in CleanupRequests : RouteOf(r) = h}]

NextCleanup ==
    \/ \E r \in CleanupRouted["categories.create"] : CategoriesCreate(r)
    \/ \E r \in CleanupRouted["products.create"] : ProductsCreate(r)
    \/ \E r \in CleanupRouted["orders.create"] : OrdersCreate(r)
    \/ \E r \in CleanupRouted["orders.delete"] : OrdersDelete(r)
    \/ \E id \in OrderItemIds : OrderItemDelete(id)

\* a deletion that was started runs: the event loop resumes the callback
SpecCleanup ==
    Init /\ [][NextCleanup]_vars /\ WF_vars(\E id \in OrderItemIds : OrderItemDelete(id))

-----------------------------------------------------------------------------
(* Error translation: a middleware passes an error to next(err)            *)

ErrorNames ==
    {"UnauthorizedError", "NotFoundError", "ValidationError", "CastError",
     "JsonWebTokenError", "TokenExpiredError", "MongoError", "MulterError",
     "SyntaxError", "RangeError", "TypeError", "ReferenceError", "Error",
     "MongoServerError"}

\* no code, the duplicate-key code and another database code
ErrorCodes == {0, DuplicateKey, DuplicateKey + 1}

Errors == {Error(name, code) : name \in ErrorNames, code \in ErrorCodes}

ErrorRequests ==
    {Request(method, path, NoToken, NoBody, NoFile) :
        method \in {"GET", "POST", "DELETE"},
        path \in {api \o <<"products">>, api \o <<"orders", ObjectId(1)>>}}

\* next(e) while the request is served, no response written yet
NextError(r, e) ==
    /\ r.method # "OPTIONS"
    /\ ErrorHandler(r, e, <<>>, <<>>)
    /\ UNCHANGED db

NextErrors == \E r \in ErrorRequests, e \in Errors : NextError(r, e)

SpecErrors == Init /\ [][NextErrors]_vars

-----------------------------------------------------------------------------
(* Missing documents: GET, PUT and DELETE of identifiers whose documents   *)
(* are not stored yet or not stored any more                               *)

MissingIds == {ObjectId(1), BadId}

MissingRequests ==
    {Request(method, api \o <<n, id>>, NoToken,
             IF method = "PUT" THEN LookupBody ELSE NoBody, NoFile) :
        method \in {"GET", "PUT", "DELETE"}, n \in Resources, id \in MissingIds}
    \cup {Request("POST", api \o <<n>>, NoToken, LookupBody, "image/png") :
            n \in Resources}

MissingRouted == [h \in Handlers |-> {r \in MissingRequests : RouteOf(r) = h}]

NextMissing ==
    \/ \E r \in MissingRouted["products.get"] : ProductsGet(r)
    \/ \E r \in MissingRouted["categories.get"] : CategoriesGet(r)
    \/ \E r \in MissingRouted["users.get"] : UsersGet(r)
    \/ \E r \in MissingRouted["orders.get"] : OrdersGet(r)
    \/ \E r \in MissingRouted["products.create"] : ProductsCreate(r)
    \/ \E r \in MissingRouted["categories.create"] : CategoriesCreate(r)
    \/ \E r \in MissingRouted["users.create"] : UsersCreate(r)
    \/ \E r \in MissingRouted["orders.create"] : OrdersCreate(r)
    \/ \E r \in MissingRouted["products.update"] : ProductsUpdate(r)
    \/ \E r \in MissingRouted["categories.update"] : CategoriesUpdate(r)
    \/ \E r \in MissingRouted["users.update"] : UsersUpdate(r)
    \/ \E r \in MissingRouted["orders.update"] : OrdersUpdate(r)
    \/ \E r \in MissingRouted["products.delete"] : ProductsDelete(r)
    \/ \E r \in MissingRouted["categories.delete"] : CategoriesDelete(r)
    \/ \E r \in MissingRouted["users.delete"] : UsersDelete(r)
    \/ \E r \in MissingRouted["orders.delete"] : OrdersDelete(r)

SpecMissing == Init /\ [][NextMissing]_vars

-----------------------------------------------------------------------------
(* Users: registration, update, login, deletion, list and lookup *)

Emails == {"a@b", "c@d"}

UsersRequests ==
    {Request("POST", api \o <<"users">>, NoToken,
             [email |-> "a@b", password |-> password], NoFile) : password \in Passwords}
    \cup {Request("POST", api \o <<"users">>, NoToken, [email |-> "a@b"], NoFile)}
    \cup {Request("PUT", api \o <<"users", id>>, NoToken,
                  [email |-> email, password |-> password, isAdmin |-> isAdmin], NoFile) :
            id \in UserIds \cup {BadId}, email \in Emails, password \in Passwords,
            isAdmin \in BOOLEAN}
    \cup {Request("PUT", api \o <<"users", ObjectId(1)>>, NoToken,
                  [email |-> "a@b", isAdmin |-> FALSE], NoFile)}
    \cup {Request("POST", api \o <<"users", "login">>, NoToken,
                  [email |-> email, password |-> password], NoFile) :
            email \in Emails, password \in Passwords}
    \cup {Request("POST", api \o <<"users", "login">>, NoToken, body, NoFile) :
            body \in {[email |-> "a@b"], [password |-> "secret"]}}
    \cup {Request("DELETE", api \o <<"users", ObjectId(1)>>, NoToken, NoBody, NoFile)}
    \cup {Request("GET", api \o <<"users">>, NoToken, NoBody, NoFile)}
    \cup {Request("GET", api \o <<"users", id>>, NoToken, NoBody, NoFile) :
            id \in UserIds \cup {BadId}}

UsersRouted == [h \in Handlers |-> {r \in UsersRequests : RouteOf(r) = h}]

NextUsers ==
    \/ \E r \in UsersRouted["users.create"] : UsersCreate(r)
    \/ \E r \in UsersRouted["users.update"] : UsersUpdate(r)
    \/ \E r \in UsersRouted["users.login"] : UsersLogin(r)
    \/ \E r \in UsersRouted["users.delete"] : UsersDelete(r)
    \/ \E r \in UsersRouted["users.list"] : UsersList(r)
    \/ \E r \in UsersRouted["users.get"] : UsersGet(r)

SpecUsers == Init /\ [][NextUsers]_vars

-----------------------------------------------------------------------------
(* Documentation: the routes of the routers, each path and method under    *)
(* each router                                                             *)

\* the route paths of the four routers
RoutePaths ==
    {productsRoutes[i].path : i \in DOMAIN productsRoutes}
    \cup {categoriesRoutes[i].path : i \in DOMAIN categoriesRoutes}
    \cup {ordersRoutes[i].path : i \in DOMAIN ordersRoutes}
    \cup {usersRoutes[i].path : i \in DOMAIN usersRoutes}

\* Object.keys(route.methods)
RouteMethods == {"get", "post", "put", "delete"}

\* router.stack of the router of the file
Stack(name) ==
    CASE name[1] = "p" -> productsRoutes
      [] name[1] = "c" -> categoriesRoutes
      [] name[1] = "o" -> ordersRoutes
      [] name[1] = "u" -> usersRoutes

\* the key of route.methods for the method of router.METHOD
MethodKey(method) ==
    CASE method = "GET" -> "get"
      [] method = "POST" -> "post"
      [] method = "PUT" -> "put"
      [] method = "DELETE" -> "delete"

\* the router registers the path with the method
Registered(name, routePath, method) ==
    \E i \in DOMAIN Stack(name) :
        Stack(name)[i].path = routePath /\ MethodKey(Stack(name)[i].method) = method

\* swagger.js: the names of components.schemas, the model names and the
\* fallbacks, letter by letter
schemas ==
    { <<"P", "r", "o", "d", "u", "c", "t">>,
      <<"C", "a", "t", "e", "g", "o", "r", "y">>,
      <<"U", "s", "e", "r">>,
      <<"O", "r", "d", "e", "r">>,
      <<"O", "r", "d", "e", "r", "I", "t", "e", "m">>,
      <<"E", "r", "r", "o", "r">> }

NextDocs ==
    \E name \in RouterNames, routePath \in RoutePaths, method \in RouteMethods :
        GenerateDoc(name, routePath, method) /\ UNCHANGED db

SpecDocs == Init /\ [][NextDocs]_vars

-----------------------------------------------------------------------------
(* What a served request shows *)

Served == req # NoRequest

\* the status the client receives: that of the first response write, 0 when
\* the request is left without a response
Status == IF res = <<>> THEN 0 ELSE res[1]

\* a route handler ran for the request
HandlerRan == \E i \in 1..Len(trace) : trace[i] \in Handlers

\* expressJwt verified the request's token
Verified == \E i \in 1..Len(trace) : trace[i] = "verify"

-----------------------------------------------------------------------------
(* The authentication gate *)

\* the allow-list as README.md states it: GET and OPTIONS under the product,
\* category, upload and documentation paths, and the login path
AllowListed(r) ==
    \/ /\ r.method \in {"GET", "OPTIONS"}
       /\ \/ IsPrefix(api \o <<"products">>, r.path)
          \/ IsPrefix(api \o <<"categories">>, r.path)
          \/ IsPrefix(uploadsAt, r.path)
          \/ IsPrefix(docsAt, r.path)
    \/ r.path = api \o <<"users", "login">>

\* C1: a request other than a preflight whose path and method are not
\* allow-listed and whose token is missing, forged or expired is answered
\* 401 and no route handler runs for it.
C1_UnauthenticatedRejected ==
    (Served /\ req.method # "OPTIONS" /\ ~Unless(req) /\ ~ValidToken(req.token))
        => (Status = 401 /\ ~HandlerRan)

\* C2: a request other than a preflight whose path and method are not
\* allow-listed and whose valid token has no true isAdmin claim is answered
\* 401 and no route handler runs for it.
C2_NonAdminRejected ==
    (Served /\ req.method # "OPTIONS" /\ ~Unless(req) /\ ValidToken(req.token)
        /\ ~req.token.isAdmin)
        => (Status = 401 /\ ~HandlerRan)

C4_RegistrationAllowListed ==
    (Served /\ req.method = "POST" /\ req.path = api \o <<"users">>) => Unless(req)

-----------------------------------------------------------------------------
(* Orders *)

IsCreateOrder(r) == r.method = "POST" /\ r.path = api \o <<"orders">>

\* the sum over submitted order items of quantity times the stored price of
\* the referenced product
RECURSIVE SubmittedTotal(_)
SubmittedTotal(items) ==
    IF items = <<>> THEN 0
    ELSE items[1].quantity * products[items[1].product].price
         + SubmittedTotal(Tail(items))

\* C5: an order stored by POST /orders has as totalPrice the sum, over the
\* order items submitted, of quantity times the price of the referenced
\* product as stored when the order is created; later requests leave it.
C5_TotalPrice ==
    [][ /\ (IsCreateOrder(req') /\ res' = <<201>>)
            => /\ ObjectId(nextOrder') \in DOMAIN orders'
               /\ ObjectId(nextOrder') \notin DOMAIN orders
               /\ orders'[ObjectId(nextOrder')].totalPrice
                      = SubmittedTotal(req'.body.orderItems)
        /\ \A o \in DOMAIN orders \cap DOMAIN orders' :
               orders'[o].totalPrice = orders[o].totalPrice
        /\ (DOMAIN orders' # DOMAIN orders)
            => (IsCreateOrder(req') /\ res' = <<201>>) ]_vars

\* C5 witness: an order of two items, two at the price 2 and one more, is
\* stored with the total 6.
C5_Witness ==
    /\ IsCreateOrder(req) /\ res = <<201>>
    /\ Len(req.body.orderItems) = 2
    /\ ObjectId(nextOrder) \in DOMAIN orders
    /\ orders[ObjectId(nextOrder)].totalPrice = 6
    /\ products[ObjectId(1)].price = 2

\* C8: every stored order's status is one of Pending, Shipped, Delivered,
\* Cancelled, whatever status values the clients of POST /orders and
\* PUT /orders/:id supply.
C8_StatusInEnum == \A o \in DOMAIN orders : orders[o].status \in OrderStatuses

-----------------------------------------------------------------------------
(* Products and their categories *)

IsCreateProduct(r) == r.method = "POST" /\ r.path = api \o <<"products">>

IsUpdateProduct(r) ==
    r.method = "PUT" /\ Len(r.path) = 4 /\ IsPrefix(api \o <<"products">>, r.path)

\* the request's category identifier matches no stored category
NoSuchCategory(r) == CategoryOf(r.body) \notin DOMAIN categories

C7_CategoryStored ==
    \A p \in DOMAIN products : products[p].category \in DOMAIN categories

\* C7 as amended: a product that POST /products stores or PUT /products/:id
\* writes refers, when it is written, to a stored category; no other request
\* changes a product's category, and deleting a category leaves the products
\* that refer to it as they are.
C7_CategoryStoredWhenWritten ==
    [][ /\ \A p \in DOMAIN products' :
              (\/ p \notin DOMAIN products
               \/ products'[p].category # products[p].category
               \/ (IsUpdateProduct(req') /\ Param(req') = p /\ res' = <<200>>))
                  => /\ products'[p].category \in DOMAIN categories'
                     /\ IsCreateProduct(req') \/ IsUpdateProduct(req')
        /\ (categories' # categories) => (products' = products) ]_vars

\* C7 witness: PUT /products/:id moved a stored product to a stored category
\* and was answered 200.
C7_Witness ==
    /\ IsUpdateProduct(req) /\ res = <<200>>
    /\ Param(req) \in DOMAIN products
    /\ products[Param(req)].category = req.body.category
    /\ req.body.category \in DOMAIN categories

\* C9: every stored product's countInStock lies in [0, 255], whatever
\* countInStock values the clients of POST /products and PUT /products/:id
\* supply.
C9_CountInStockInRange ==
    \A p \in DOMAIN products :
        /\ products[p].countInStock >= MinCountInStock
        /\ products[p].countInStock <= MaxCountInStock

-----------------------------------------------------------------------------
(* Lookups *)

IsGetById(r) ==
    /\ r.method = "GET" /\ Len(r.path) = 4
    /\ \E n \in Resources : IsPrefix(api \o <<n>>, r.path)

\* the identifiers stored in the collection the request addresses
StoredIds(r) ==
    CASE r.path[3] = "products" -> DOMAIN products
      [] r.path[3] = "categories" -> DOMAIN categories
      [] r.path[3] = "users" -> DOMAIN users
      [] OTHER -> DOMAIN orders

\* C10: GET /:id on products, categories, users or orders with a well-formed
\* identifier that matches no stored document is answered 404.
C10_NotFound404 ==
    (Served /\ IsGetById(req) /\ isValidObjectId(Param(req))
        /\ Param(req) \notin StoredIds(req))
        => Status = 404

\* C10 witness: an order was stored and deleted, and a GET of its identifier
\* was then answered 404.
C10_Witness ==
    /\ IsGetById(req) /\ req.path[3] = "orders"
    /\ Param(req) = ObjectId(1)
    /\ nextOrder = 1 /\ orders = Empty
    /\ Status = 404

-----------------------------------------------------------------------------
(* Order deletion *)

IsDeleteOrder(r) ==
    r.method = "DELETE" /\ Len(r.path) = 4 /\ IsPrefix(api \o <<"orders">>, r.path)

\* C11: DELETE /orders/:id of a stored order issues a deletion for every
\* order item identifier of that order, and every deletion issued runs, so
\* that eventually none of the order's items remains stored.
C11_OrderItemsDeleted ==
    /\ [][ /\ (IsDeleteOrder(req') /\ Param(req') \in DOMAIN orders)
                => /\ res' = <<200>>
                   /\ Param(req') \notin DOMAIN orders'
                   /\ Range(orders[Param(req')].orderItems) \subseteq pendingDeletes'
            /\ \A id \in OrderItemIds :
                  (id \notin DOMAIN orderItems /\ nextOrderItem' = nextOrderItem)
                      => id \notin DOMAIN orderItems' ]_vars
    /\ \A id \in OrderItemIds :
          (id \in pendingDeletes) ~> (id \notin DOMAIN orderItems)

\* C11 witness: an order of two items was deleted and neither item remains.
C11_Witness ==
    /\ IsDeleteOrder(req) /\ res = <<200>>
    /\ nextOrder = 1 /\ orders = Empty
    /\ nextOrderItem = 2 /\ orderItems = Empty
    /\ pendingDeletes = {}

-----------------------------------------------------------------------------
(* Error translation *)

\* errorHandler ran for the request
Translated == trace # <<>> /\ trace[Len(trace)] = "errorHandler"

\* C12: errorHandler answers an error with exactly one response, whose status
\* is 401 for UnauthorizedError, JsonWebTokenError and TokenExpiredError, 404
\* for NotFoundError, 400 for ValidationError, CastError, MongoError with
\* code 11000, MulterError, SyntaxError, RangeError, TypeError and
\* ReferenceError, and 500 for every other error.
C12_StatusByName ==
    (Served /\ Translated /\ Len(trace) = 1)
        => /\ Len(res) = 1
           /\ res[1] =
                 CASE err.name \in {"UnauthorizedError", "JsonWebTokenError",
                                    "TokenExpiredError"} -> 401
                   [] err.name = "NotFoundError" -> 404
                   [] err.name \in {"ValidationError", "CastError", "MulterError",
                                    "SyntaxError", "RangeError", "TypeError",
                                    "ReferenceError"} -> 400
                   [] err.name = "MongoError" /\ err.code = 11000 -> 400
                   [] OTHER -> 500

\* C12 witness: a database error that is no duplicate key was answered 500.
C12_Witness ==
    /\ Translated /\ Len(trace) = 1
    /\ err.name = "MongoError" /\ err.code # 11000 /\ err.code # 0
    /\ res = <<500>>

-----------------------------------------------------------------------------
(* Responses *)

\* C13: every request dispatched to a resource handler receives a response,
\* also when the handler's database operation fails: the handler responds
\* itself or errorHandler does.
C13_Responded == (Served /\ HandlerRan) => res # <<>>

-----------------------------------------------------------------------------
(* Lists and counts *)

IsList(r) == r.method = "GET" /\ Len(r.path) = 3 /\ r.path[3] \in Resources

\* the stored documents the list request asks for: all of the collection,
\* for products those of the categories in the query
Matching(r) ==
    IF r.path[3] = "products" /\ Has(r.query, "categories")
    THEN {p \in DOMAIN products : products[p].category \in r.query.categories}
    ELSE StoredIds(r)

WellFormedQuery(r) ==
    Has(r.query, "categories") => \A c \in r.query.categories : isValidObjectId(c)

\* C14: GET / on products, categories, users or orders (with a well-formed
\* query) when no stored document matches is answered with a success status
\* and an empty array, never with an error status.
C14_EmptyList ==
    (Served /\ IsList(req) /\ WellFormedQuery(req) /\ Matching(req) = {})
        => (res = <<200>> /\ sent = Array({}))

\* C14 witness: products are stored, none of the category asked for, and
\* the list is answered 200 with the empty array.
C14_Witness ==
    /\ IsList(req) /\ req.path[3] = "products"
    /\ Has(req.query, "categories")
    /\ products # Empty
    /\ res = <<200>> /\ sent = Array({})

IsCount(r) ==
    /\ r.method = "GET" /\ Len(r.path) = 5
    /\ r.path[3] \in {"products", "users", "orders"}
    /\ r.path[4] = "get" /\ r.path[5] = "count"

\* C15: GET /get/count on products, users and orders is answered with a
\* success status and the body {count: n}, n the number of stored documents
\* of the resource, also when the collection is empty.
C15_Count ==
    (Served /\ IsCount(req))
        => /\ res = <<200>>
           /\ sent = [kind |-> "object", count |-> Cardinality(StoredIds(req))]

-----------------------------------------------------------------------------
(* Missing documents *)

IsById(r) ==
    /\ r.method \in {"GET", "PUT", "DELETE"} /\ Len(r.path) = 4
    /\ r.path[3] \in Resources

\* C16: GET, PUT and DELETE addressed to a well-formed identifier that
\* matches no stored document are answered 404 and change no stored document.
C16_Missing404 ==
    [][ (IsById(req') /\ isValidObjectId(Param(req'))
            /\ Param(req') \notin StoredIds(req'))
           => (Status' = 404 /\ UNCHANGED db) ]_vars

-----------------------------------------------------------------------------
(* Users *)

IsRegister(r) == r.method = "POST" /\ r.path = api \o <<"users">>

IsUpdateUser(r) ==
    r.method = "PUT" /\ Len(r.path) = 4 /\ IsPrefix(api \o <<"users">>, r.path)

\* C17: a user record written by POST /users or PUT /users/:id holds in
\* passwordHash the salted hash of the submitted password, and no stored
\* user record holds a plaintext password in any field.
C17_PasswordHashed ==
    [][ /\ \A u \in DOMAIN users' :
              /\ DOMAIN users'[u] = {"email", "passwordHash", "isAdmin"}
              /\ users'[u].passwordHash.digest \notin Passwords
              /\ users'[u].passwordHash.salt \in Salts
              /\ users'[u].email \notin Passwords
        /\ \A u \in DOMAIN users' :
              (u \notin DOMAIN users \/ users'[u] # users[u])
                  => /\ IsRegister(req') \/ (IsUpdateUser(req') /\ Param(req') = u)
                     /\ res' = <<200>>
                     /\ users'[u].passwordHash
                          = hashSync(req'.body.password, users'[u].passwordHash.salt)
                     /\ compareSync(req'.body.password, users'[u].passwordHash) ]_vars

\* C17 witness: a user registered with one password has been updated with
\* the other, and the stored hash is that of the new password.
C17_Witness ==
    /\ IsUpdateUser(req) /\ res = <<200>>
    /\ req.body.password = "guess"
    /\ Param(req) \in DOMAIN users
    /\ compareSync("guess", users[Param(req)].passwordHash)
    /\ ~compareSync("secret", users[Param(req)].passwordHash)

IsLogin(r) == r.method = "POST" /\ r.path = api \o <<"users", "login">>

\* the stored users that have the submitted email and whose stored hash the
\* submitted password matches
Authenticated(r) ==
    {u \in DOMAIN users :
        /\ Has(r.body, "email") /\ users[u].email = r.body.email
        /\ Has(r.body, "password")
        /\ compareSync(r.body.password, users[u].passwordHash)}

-----------------------------------------------------------------------------
(* Order status *)

IsUpdateOrder(r) ==
    r.method = "PUT" /\ Len(r.path) = 4 /\ IsPrefix(api \o <<"orders">>, r.path)

-----------------------------------------------------------------------------
(* Documentation *)

\* the schema swagger.js defines for the resource of the router with this tag
ResourceSchema(tag) ==
    CASE tag[1] = "P" -> <<"P", "r", "o", "d", "u", "c", "t">>
      [] tag[1] = "C" -> <<"C", "a", "t", "e", "g", "o", "r", "y">>
      [] tag[1] = "O" -> <<"O", "r", "d", "e", "r">>
      [] OTHER -> <<"U", "s", "e", "r">>

\* C20: in the generated documentation a GET route whose path ends in /:id
\* has a success response schema that references the single resource of its
\* router, and a GET route whose path ends in /count has the count-object
\* schema {count: integer}.
C20_ResponseSchema ==
    (pathObj # NoDoc /\ pathObj.method = "get" /\ pathObj.path # <<>>)
        => /\ (pathObj.path[Len(pathObj.path)] = ":id")
                => pathObj.schema = [type |-> "ref", ref |-> ResourceSchema(pathObj.tag)]
           /\ (pathObj.path[Len(pathObj.path)] = "count")
                => pathObj.schema = [type |-> "object", properties |-> {"count"}]

-----------------------------------------------------------------------------
(* Uploads *)

\* the request passes through uploadOptions: POST /products, PUT /products/:id
\* and PUT /products/gallery-images/:id
IsUpload(r) ==
    /\ r.method \in {"POST", "PUT"}
    /\ IsPrefix(api \o <<"products">>, r.path)

\* C21: an upload whose MIME type is none of image/png, image/jpeg,
\* image/jpg, image/gif, image/webp and image/svg+xml is rejected with an
\* error status: no file is stored under public/uploads and no product is
\* created or updated by the request.
C21_InvalidTypeRejected ==
    [][ (IsUpload(req') /\ req'.file # NoFile
            /\ req'.file \notin {"image/png", "image/jpeg", "image/jpg", "image/gif",
                                 "image/webp", "image/svg+xml"})
           => /\ Len(res') = 1 /\ res'[1] >= 400
              /\ uploads' = uploads
              /\ products' = products
              /\ nextProduct' = nextProduct ]_vars

\* C21 witness: a valid product of a stored category sent with a text file
\* was answered 500 by errorHandler, nothing uploaded and no product stored.
C21_Witness ==
    /\ IsCreateProduct(req) /\ req.file = "text/plain"
    /\ CategoryOf(req.body) \in DOMAIN categories
    /\ ProductValid(req.body)
    /\ trace = <<"upload", "errorHandler">>
    /\ res = <<500>>
    /\ products = Empty /\ uploads = {}

-----------------------------------------------------------------------------
(* Administrators *)

\* C22: from a state without an admin user, the requests that carry no admin
\* token (every request of the users specification carries no token at all)
\* never lead to a stored user whose isAdmin is true, nor to a login that
\* issues a token whose isAdmin claim is true.
C22_NoEscalation ==
    /\ \A u \in DOMAIN users : ~users[u].isAdmin
    /\ (Served /\ IsLogin(req) /\ res = <<200>>) => ~sent.token.isAdmin

-----------------------------------------------------------------------------
(* Response writes *)

\* C23: no handler sends more than one response for a request: on every path
\* through every route handler, the not-found branch of GET /:id and the
\* zero-count branch of GET /get/count included, the response is written at
\* most once.
C23_AtMostOnce == Served => Len(res) <= 1

-----------------------------------------------------------------------------
(* Failed order creation *)

\* C24: a POST /orders that does not end with a stored order (the order
\* fails validation on save, or the product of an item does not exist)
\* leaves the stored state as it was before the request: no order item
\* created by the request remains stored.
C24_FailedOrderLeavesNothing ==
    [][ (IsCreateOrder(req') /\ orders' = orders)
           => (orderItems' = orderItems /\ UNCHANGED db) ]_vars

-----------------------------------------------------------------------------
(* The response of an order deletion *)

\* C25: DELETE /orders/:id sends its 200 response only after the deletion of
\* every order item of the deleted order has completed: when the response is
\* written, no deletion that the request started is still to run.
C25_RespondsAfterDeletions ==
    [][ (IsDeleteOrder(req') /\ res' = <<200>> /\ Param(req') \in DOMAIN orders)
           => \A id \in Range(orders[Param(req')].orderItems) :
                 id \notin pendingDeletes' /\ id \notin DOMAIN orderItems' ]_vars

-----------------------------------------------------------------------------
(* What the users API sends *)

IsUsersApi(r) == Len(r.path) >= 3 /\ IsPrefix(api \o <<"users">>, r.path)

\* the body carries a user's passwordHash: in a document sent, in a document
\* of an array sent, or in the user object of GET /:id
Exposes(body) ==
    \/ body.kind = "document" /\ Has(body.doc, "passwordHash")
    \/ body.kind = "array" /\ \E d \in body.items : Has(d, "passwordHash")
    \/ /\ body.kind = "object" /\ Has(body, "user") /\ ~Has(body, "token")
       /\ Has(body.user, "passwordHash")

\* C26: no response of the users API (list, get by id, register, update,
\* login) contains a user's passwordHash.
C26_NoPasswordHashSent == (Served /\ IsUsersApi(req)) => ~Exposes(sent)

-----------------------------------------------------------------------------
(* The generated documentation of the registered routes *)

\* the file name of the router with this tag
RouterOf(tag) == CHOOSE name \in RouterNames : generateTag(name) = tag

\* the operation documents a route its router registers
IsRegistered(operation) ==
    /\ operation # NoDoc
    /\ Registered(RouterOf(operation.tag), operation.path, operation.method)

\* the schema names the operation refers to: that of the error responses,
\* that of the success response and that of the request body
References(operation) ==
    { <<"E", "r", "r", "o", "r">> }
    \cup (IF operation.schema.type \in {"array", "ref"}
          THEN {operation.schema.ref} ELSE {})
    \cup (IF operation.requestBody.type = "ref"
          THEN {operation.requestBody.ref} ELSE {})

\* C27: every schema reference the generator emits for a route of the
\* routers products, categories, users and orders names a schema that the
\* document defines in components.schemas.
C27_ReferencesDefined == IsRegistered(pathObj) => References(pathObj) \subseteq schemas

\* C28: no two distinct (router, route path, method) triples of the
\* registered routes receive the same operation identifier.
C28_UniqueOperationIds ==
    [][ (/\ IsRegistered(pathObj) /\ IsRegistered(pathObj')
         /\ <<pathObj'.tag, pathObj'.path, pathObj'.method>>
                # <<pathObj.tag, pathObj.path, pathObj.method>>)
           => pathObj'.operationId # pathObj.operationId ]_vars

-----------------------------------------------------------------------------
(* The checks of product creation *)

\* the request's category identifier is absent or well-formed and matches
\* no stored category
CategoryMissing(r) ==
    /\ CategoryOf(r.body) \notin DOMAIN categories
    /\ CategoryOf(r.body) = Undefined \/ isValidObjectId(CategoryOf(r.body))

\* C29: POST /products checks first that the category exists and then that
\* an image file is present: a request of a stored category without a file
\* is answered 400 for the missing image and stores no product, and a request
\* without a file whose category is not stored is answered for the category.
C29_CategoryThenImage ==
    [][ /\ (/\ IsCreateProduct(req') /\ req'.file = NoFile
            /\ CategoryOf(req'.body) \in DOMAIN categories)
              => /\ res' = <<400>>
                 /\ sent' = Text("No image in the request")
                 /\ products' = products /\ nextProduct' = nextProduct
        /\ (IsCreateProduct(req') /\ req'.file = NoFile /\ CategoryMissing(req'))
              => /\ res' = <<400>>
                 /\ sent' = Text("Invalid Category")
                 /\ products' = products /\ nextProduct' = nextProduct ]_vars

\* C29 witness: a product of a stored category sent without a file was
\* answered 400 for the missing image, and no product is stored.
C29_Witness ==
    /\ IsCreateProduct(req) /\ req.file = NoFile
    /\ CategoryOf(req.body) \in DOMAIN categories
    /\ ProductValid(req.body)
    /\ res = <<400>> /\ sent = Text("No image in the request")
    /\ products = Empty /\ nextProduct = 0

-----------------------------------------------------------------------------
(* The frame of a product update *)

====
